---- MODULE Spec2Model ----
(***************************************************************************)
(* A model of src/utils/create-server-fn.ts: the fluent server-function    *)
(* builder (createServerFn / use / validate / handler) and the compiled    *)
(* callable that handler() returns.                                        *)
(*                                                                         *)
(* Builders are objects on a heap (`builders`, indexed by creation order). *)
(* A compiled callable is the closure returned by handler(): it captures   *)
(* `this` (a builder index) and `fn` (a handler).  An invocation of a      *)
(* callable is an async function activation; its steps are the synchronous *)
(* segments between two awaits.                                            *)
(***************************************************************************)
EXTENDS Integers, Sequences, FiniteSets, TLC

VARIABLES builders, history, thrown, callables, invocations

vars == <<builders, history, thrown, callables, invocations>>

(***************************************************************************)
(* Bounds of the model.                                                    *)
(***************************************************************************)
\* The objects the program may allocate: builders, compiled callables and
\* activations of a callable, together.
MaxObjects == 5

\* The builders among them.
MaxBuilders == 4

\* The activations among them.
MaxInvocations == 2

\* The longest pipeline SpecRun starts from, and the activations it makes.
MaxStages == 3

MaxRuns == 1

\* The activations SpecPair lets overlap.
MaxConcurrent == 2

(***************************************************************************)
(* JavaScript values.  `undefined` is the absent value; an object that is  *)
(* a context is the set of its keys; inputs are named by their shape.      *)
(***************************************************************************)
undefined == "undefined"

EmptyContext == {}

\* The callable's optional argument: absent, or an object with or without
\* an `input` property.
NoArgs == [absent |-> TRUE]

ArgsWithoutInput == [other |-> TRUE]

Inputs == {undefined, "null", "empty", "partial", "full"}

ArgsSet == {NoArgs, ArgsWithoutInput} \cup {[input |-> v] : v \in Inputs}

\* More inputs that are present but empty, for the runs of one pipeline:
\* the empty string, 0 and false (with null and the empty object above).
EmptyInputs == {"emptyString", "zero", "false"}

RunArgs == ArgsSet \cup {[input |-> v] : v \in EmptyInputs}

(***************************************************************************)
(* Error classes (lines 102-171).  An absent optional argument is          *)
(* `undefined`; an absent `errors` argument is the empty list.             *)
(***************************************************************************)
NoErrors == <<>>

\* Mutant of the constructor: an empty `errors` argument is kept.
ServerFnErrorKeepsEmpty(message, code, errors) ==
    [class |-> "ServerFnError", name |-> "ServerFnError", message |-> message,
     code |-> IF code # undefined /\ code # "" THEN code ELSE "SERVER_ERROR",
     errors |-> errors]

ServerFnError(message, code, errors) ==
    [class |-> "ServerFnError", name |-> "ServerFnError", message |-> message,
     code |-> IF code # undefined /\ code # "" THEN code ELSE "SERVER_ERROR",
     errors |-> IF Len(errors) > 0 THEN errors ELSE <<message>>]

ValidationError(message, errors) ==
    [ServerFnError(IF message = undefined THEN "Validation failed" ELSE message,
                   "VALIDATION_ERROR", errors)
        EXCEPT !.name = "ValidationError"]

UnauthorizedError(message) ==
    [ServerFnError(IF message = undefined THEN "Unauthorized" ELSE message,
                   "UNAUTHORIZED", NoErrors)
        EXCEPT !.name = "UnauthorizedError"]

ForbiddenError(message) ==
    [ServerFnError(IF message = undefined THEN "Forbidden" ELSE message,
                   "FORBIDDEN", NoErrors)
        EXCEPT !.name = "ForbiddenError"]

NotFoundError(message) ==
    [ServerFnError(IF message = undefined THEN "Not found" ELSE message,
                   "NOT_FOUND", NoErrors)
        EXCEPT !.name = "NotFoundError"]

\* The `new` expressions of the handlers that raise a Domain Error: the
\* class and the arguments given (`undefined` for one left out, the empty
\* list for no `errors`).
Descriptions == {"", "Card declined"}

Codes == {undefined, "", "PAYMENT_ERROR"}

MessageLists == {NoErrors, <<"Name required">>, <<"Name required", "Email invalid">>}

Calls ==
    [class : {"ServerFnError"}, message : Descriptions, code : Codes,
     errors : MessageLists]
    \cup [class : {"ValidationError"}, message : Descriptions \cup {undefined},
          code : {undefined}, errors : MessageLists]
    \cup [class : {"UnauthorizedError", "ForbiddenError", "NotFoundError"},
          message : Descriptions \cup {undefined},
          code : {undefined}, errors : {NoErrors}]

\* new call.class(...)
New(call) ==
    CASE call.class = "ServerFnError" ->
            ServerFnError(call.message, call.code, call.errors)
      [] call.class = "ValidationError" ->
            ValidationError(call.message, call.errors)
      [] call.class = "UnauthorizedError" -> UnauthorizedError(call.message)
      [] call.class = "ForbiddenError" -> ForbiddenError(call.message)
      [] call.class = "NotFoundError" -> NotFoundError(call.message)

\* A handler `async () => { throw new ... }` is named by its expression.
Raisers == {ToString(call) : call \in Calls}

Thrown(fn) == CHOOSE call \in Calls : ToString(call) = fn

\* A plain Error: not a ServerFnError, it has no code and no errors list.
PlainError(message) ==
    [class |-> "Error", name |-> "Error", message |-> message]

\* The error zod's parse() throws: an ordered list of issues.
ZodError(messages) ==
    [class |-> "ZodError", name |-> "ZodError", message |-> "zod",
     issues |-> [k \in 1..Len(messages) |-> [message |-> messages[k]]]]

\* error instanceof ServerFnError
IsServerFnError(error) == error.class = "ServerFnError"

\* error instanceof z.ZodError
IsZodError(error) == error.class = "ZodError"

\* String(error): Error.prototype.toString
StringOf(error) ==
    IF error.message = "" THEN error.name
    ELSE error.name \o ": " \o error.message

\* The fault of the second validate() call (line 365).
ConfigError == PlainError("validate() can only be called once")

NoError == [class |-> "none"]

(***************************************************************************)
(* Results of awaited calls: a fulfilled value or a rejection.             *)
(***************************************************************************)
Value(v) == [ok |-> TRUE, value |-> v]

Throw(e) == [ok |-> FALSE, error |-> e]

(***************************************************************************)
(* The functions a user hands to the builder.  The core treats them as     *)
(* opaque async functions; the model draws them from the example files.    *)
(***************************************************************************)
Stages == {"userId", "timestamp", "guard"}

\* middleware(context): the settlement of the promise a stage returns.
\* "userId" ignores the context it receives, "timestamp" spreads it, and
\* "guard" reads context.userId and context.timestamp before extending it.
StageFn(stage, context) ==
    CASE stage = "userId" -> Value({"userId"})
      [] stage = "timestamp" -> Value(context \cup {"timestamp"})
      [] stage = "guard" ->
            IF "userId" \notin context
            THEN Throw(PlainError("Cannot read properties of undefined"))
            ELSE IF "timestamp" \notin context
                 THEN Throw(ForbiddenError("Admin required"))
                 ELSE Value(context \cup {"isAdmin"})

Validators == {"schema", "pred"}

\* typeof this.validator === "function"
IsFunction(validator) == validator = "pred"

\* schema.parse(input) for z.object({ title: min(1), content: min(10) }):
\* unknown keys are stripped, violations are reported in field order.
SchemaParse(input) ==
    CASE input = "full" -> Value("parsed")
      [] input = "partial" -> Throw(ZodError(<<"Content too short">>))
      [] input = "empty" ->
            Throw(ZodError(<<"Title required", "Content too short">>))
      [] OTHER -> Throw(ZodError(<<"Expected object, received " \o input>>))

\* A custom validation function: the settlement of validator(input).  It
\* returns without a value when the input is `false`.
PredFn(input) ==
    CASE input = "full" -> Value("validated")
      [] input = "partial" ->
            Throw(ServerFnError("Lookup failed", "CONFLICT",
                                <<"Title taken", "Pick another">>))
      [] input = "empty" -> Throw(ValidationError("Expected FormData", NoErrors))
      [] input = "false" -> Value(undefined)
      [] OTHER -> Throw(PlainError("Cannot read properties of " \o input))

Handlers == {"echo", "soft", "hard"}

\* Two more handlers, for the runs of one pipeline: one returns nothing, one
\* returns an object shaped like a failure envelope.
RunHandlers == Handlers \cup {"void", "wrapped"}

\* fn(args): the settlement of the promise the handler returns.
HandlerFn(fn, args) ==
    CASE fn = "echo" -> Value(args)
      [] fn = "soft" ->
            Throw(ServerFnError("Post not found", "NOT_FOUND",
                                <<"Post not found", "Check the id">>))
      [] fn = "hard" -> Throw(PlainError("System failure - this crashes!"))
      [] fn = "void" -> Value(undefined)
      [] fn \in Raisers -> Throw(New(Thrown(fn)))
      [] fn = "wrapped" ->
            Value([ok |-> FALSE, code |-> "NOT_FOUND",
                   errors |-> <<"Post not found">>])

(***************************************************************************)
(* ServerFnBuilderImpl (lines 328-461).  A builder object has the two      *)
(* private fields `middlewares` and `validator`.  No method of the class   *)
(* writes to an array after it was built, so an array is modelled by its   *)
(* value although validate() hands the same array to the new builder.      *)
(***************************************************************************)
\* constructor(middlewares): the validator field starts undefined.
NewBuilder(middlewares) ==
    [middlewares |-> middlewares, validator |-> undefined]

\* createServerFn(): `new ServerFnBuilderImpl()`, with the default argument.
createServerFn ==
    NewBuilder(<<>>)

\* Mutant of use(): the middleware is pushed onto the receiver's own array,
\* which the new builder then shares.
usePushes(heap, this, middleware) ==
    Append([heap EXCEPT ![this].middlewares = Append(@, middleware)],
           NewBuilder(Append(heap[this].middlewares, middleware)))

\* this.use(middleware) on heap `heap`: the heap after the call; the new
\* builder is last.
use(heap, this, middleware) ==
    Append(heap, NewBuilder(Append(heap[this].middlewares, middleware)))

\* Mutant of the guard of validate(): it never throws.
validateNeverThrows(heap, this) ==
    FALSE

\* if (this.validator) throw new Error("validate() can only be called once")
validateThrows(heap, this) ==
    heap[this].validator # undefined

\* Mutant of validate(): the validator is also stored on the receiver.
validateMarksReceiver(heap, this, validator) ==
    Append([heap EXCEPT ![this].validator = validator],
           [NewBuilder(heap[this].middlewares) EXCEPT !.validator = validator])

\* this.validate(validator) when it does not throw: the heap after the call.
validate(heap, this, validator) ==
    Append(heap,
           [NewBuilder(heap[this].middlewares) EXCEPT !.validator = validator])

\* this.handler(fn): the closure returned, which captures `this` and `fn`.
handler(this, fn) ==
    [this |-> this, fn |-> fn]

\* The number of objects allocated so far.
Allocated == Len(builders) + Cardinality(callables) + Len(invocations)

\* A builder may still be allocated.
RoomForBuilder == Allocated < MaxObjects /\ Len(builders) < MaxBuilders

NotThrown == [error |-> NoError, receiver |-> 0, arg |-> undefined]

CallUse(b, middleware) ==
    /\ builders' = use(builders, b, middleware)
    /\ history' = Append(history, [op |-> "use", parent |-> b, arg |-> middleware])
    /\ thrown' = NotThrown
    /\ UNCHANGED <<callables, invocations>>

\* Mutant of validate(): the validator is stored on the receiver before the
\* guard is tested.
CallValidateStoresFirst(b, validator) ==
    IF validateThrows(builders, b)
    THEN /\ thrown' = [error |-> ConfigError, receiver |-> b, arg |-> validator]
         /\ builders' = [builders EXCEPT ![b].validator = validator]
         /\ UNCHANGED <<history, callables, invocations>>
    ELSE /\ builders' = validate(builders, b, validator)
         /\ history' = Append(history, [op |-> "validate", parent |-> b,
                                         arg |-> validator])
         /\ thrown' = NotThrown
         /\ UNCHANGED <<callables, invocations>>

CallValidate(b, validator) ==
    IF validateThrows(builders, b)
    THEN /\ thrown' = [error |-> ConfigError, receiver |-> b, arg |-> validator]
         /\ UNCHANGED <<builders, history, callables, invocations>>
    ELSE /\ builders' = validate(builders, b, validator)
         /\ history' = Append(history, [op |-> "validate", parent |-> b,
                                         arg |-> validator])
         /\ thrown' = NotThrown
         /\ UNCHANGED <<callables, invocations>>

CallHandler(b, fn) ==
    /\ handler(b, fn) \notin callables
    /\ callables' = callables \cup {handler(b, fn)}
    /\ thrown' = NotThrown
    /\ UNCHANGED <<builders, history, invocations>>

(***************************************************************************)
(* The compiled callable (lines 390-459).                                  *)
(***************************************************************************)
Pending == [kind |-> "Pending"]

Resolved(envelope) == [kind |-> "Resolved", envelope |-> envelope]

Rejected(fault) == [kind |-> "Rejected", fault |-> fault]

Success(data) == [ok |-> TRUE, data |-> data]

Failure(code, errors) == [ok |-> FALSE, code |-> code, errors |-> errors]

\* const input = args?.input
ArgsInput(args) ==
    IF args # NoArgs /\ "input" \in DOMAIN args THEN args.input ELSE undefined

\* Mutants of the outer catch: one reports only the error's message, one
\* converts every fault into an envelope.
OuterCatchMessageOnly(error) ==
    IF IsServerFnError(error)
    THEN Resolved(Failure(error.code, <<error.message>>))
    ELSE Rejected(error)

OuterCatchCatchAll(error) ==
    IF IsServerFnError(error)
    THEN Resolved(Failure(error.code, error.errors))
    ELSE Resolved(Failure("SERVER_ERROR", <<error.message>>))

\* Mutant of the outer catch: every fault is rethrown.
OuterCatchRethrowsAll(error) ==
    Rejected(error)

\* The outer catch, STEP 5 (lines 445-458).
OuterCatch(error) ==
    IF IsServerFnError(error)
    THEN Resolved(Failure(error.code, error.errors))
    ELSE Rejected(error)

\* Mutant of the inner catch: a fault that is no schema violation is left
\* to the outer catch.
InnerCatchDefers(error) ==
    IF IsZodError(error)
    THEN Resolved(Failure("VALIDATION_ERROR",
                          [k \in 1..Len(error.issues) |-> error.issues[k].message]))
    ELSE IF IsServerFnError(error)
         THEN Resolved(Failure(error.code, error.errors))
         ELSE Rejected(error)

\* Mutant of the inner catch: a Domain Error keeps its own messages.
InnerCatchKeepsList(error) ==
    IF IsZodError(error)
    THEN Resolved(Failure("VALIDATION_ERROR",
                          [k \in 1..Len(error.issues) |-> error.issues[k].message]))
    ELSE IF IsServerFnError(error)
         THEN Resolved(Failure("VALIDATION_ERROR", error.errors))
         ELSE Resolved(Failure("VALIDATION_ERROR",
                               <<"Validation failed: " \o StringOf(error)>>))

\* Mutant of the inner catch: the issues are reported last first.
InnerCatchReverses(error) ==
    IF IsZodError(error)
    THEN Resolved(Failure("VALIDATION_ERROR",
                          [k \in 1..Len(error.issues) |->
                              error.issues[Len(error.issues) + 1 - k].message]))
    ELSE Resolved(Failure("VALIDATION_ERROR",
                          <<"Validation failed: " \o StringOf(error)>>))

\* The catch around the validator (lines 412-427).
InnerCatch(error) ==
    IF IsZodError(error)
    THEN Resolved(Failure("VALIDATION_ERROR",
                          [k \in 1..Len(error.issues) |-> error.issues[k].message]))
    ELSE Resolved(Failure("VALIDATION_ERROR",
                          <<"Validation failed: " \o StringOf(error)>>))

\* Mutants of the assignment to context: the result is merged into the old
\* context; the result is dropped.
NextContextMerges(context, result) == context \cup result

NextContextKeepsOld(context, result) == context

\* context = await middleware(context): the value assigned (line 398).
NextContext(context, result) == result

\* Mutant of STEP 3: the input is handed to fn whenever it is defined, with
\* or without a validator.
HandlerArgsAnyInput(validator, validatedInput, context) ==
    IF validatedInput # undefined
    THEN [input |-> validatedInput, context |-> context]
    ELSE [context |-> context]

\* Mutant of STEP 3: fn is always called with the context only.
HandlerArgsContextOnly(validator, validatedInput, context) ==
    [context |-> context]

\* Mutant of STEP 3: with a validator, fn always gets an input field.
HandlerArgsWhenValidator(validator, validatedInput, context) ==
    IF validator # undefined
    THEN [input |-> validatedInput, context |-> context]
    ELSE [context |-> context]

\* The argument object of fn, STEP 3 (lines 432-438).
HandlerArgs(validator, validatedInput, context) ==
    IF validator # undefined /\ validatedInput # undefined
    THEN [input |-> validatedInput, context |-> context]
    ELSE [context |-> context]

\* One entry of an invocation's trace (a record of what it did, kept for
\* the properties; the code does not read it).
Event(ev, unit, pos, name) ==
    [ev |-> ev, unit |-> unit, pos |-> pos, name |-> name]

Log(inv, ev, unit, pos, name) ==
    [inv EXCEPT !.trace = Append(@, Event(ev, unit, pos, name))]

\* Mutant of the locals: `context` lives in the closure, so a call starts
\* with the context the call before it has reached.
InitInvocationSharedContext(c, args) ==
    [callable |-> c, input |-> ArgsInput(args), pc |-> "start", idx |-> 1,
     context |-> IF invocations = <<>> THEN EmptyContext
                 ELSE invocations[Len(invocations)].context,
     validatedInput |-> undefined,
     outcome |-> Pending, trace |-> <<>>, received |-> <<>>,
     returned |-> <<>>, validatorArgs |-> <<>>, handlerArgs |-> <<>>]

\* Mutant of the locals: the position in the middleware list lives in the
\* closure, so a later call of the same callable does not start at the
\* first middleware.
InitInvocationResumes(c, args) ==
    [callable |-> c, input |-> ArgsInput(args), pc |-> "start",
     idx |-> 1 + Cardinality({j \in DOMAIN invocations :
                                 invocations[j].callable = c}),
     context |-> EmptyContext, validatedInput |-> undefined,
     outcome |-> Pending, trace |-> <<>>, received |-> <<>>,
     returned |-> <<>>, validatorArgs |-> <<>>, handlerArgs |-> <<>>]

\* The activation record at the first line of the async function.
InitInvocation(c, args) ==
    [callable |-> c, input |-> ArgsInput(args), pc |-> "start", idx |-> 1,
     context |-> EmptyContext, validatedInput |-> undefined,
     outcome |-> Pending, trace |-> <<>>, received |-> <<>>,
     returned |-> <<>>, validatorArgs |-> <<>>, handlerArgs |-> <<>>]

\* The async function returns or throws: its promise settles.
Finish(inv, outcome) == [inv EXCEPT !.pc = "done", !.outcome = outcome]

\* STEP 3: call fn and suspend at its await.
InvokeHandler(inv, this) ==
    Log([inv EXCEPT !.pc = "handler",
                    !.handlerArgs = Append(@, HandlerArgs(this.validator,
                                                          inv.validatedInput,
                                                          inv.context))],
        "call", "handler", 0, inv.callable.fn)

\* Mutant of STEP 2: the validator is run on an absent input too.
ValidateInputAlways(inv, this) ==
    LET inv1 == [inv EXCEPT !.validatedInput = inv.input]
        called == Log([inv1 EXCEPT !.validatorArgs = Append(@, inv.input)],
                      "call", "validator", 0, this.validator)
    IN  IF this.validator # undefined
        THEN IF IsFunction(this.validator)
             THEN [called EXCEPT !.pc = "validator"]
             ELSE LET r == SchemaParse(inv.input)
                  IN  IF r.ok
                      THEN InvokeHandler(
                             Log([called EXCEPT !.validatedInput = r.value],
                                 "return", "validator", 0, this.validator),
                             this)
                      ELSE Finish(Log(called, "throw", "validator", 0, this.validator),
                                  InnerCatch(r.error))
        ELSE InvokeHandler(inv1, this)

\* Mutant of STEP 2: the guard tests the input for truthiness.
ValidateInputTruthy(inv, this) ==
    LET inv1 == [inv EXCEPT !.validatedInput = inv.input]
        called == Log([inv1 EXCEPT !.validatorArgs = Append(@, inv.input)],
                      "call", "validator", 0, this.validator)
    IN  IF /\ this.validator # undefined
           /\ inv.input \notin {undefined, "null", "emptyString", "zero", "false"}
        THEN IF IsFunction(this.validator)
             THEN [called EXCEPT !.pc = "validator"]
             ELSE LET r == SchemaParse(inv.input)
                  IN  IF r.ok
                      THEN InvokeHandler(
                             Log([called EXCEPT !.validatedInput = r.value],
                                 "return", "validator", 0, this.validator),
                             this)
                      ELSE Finish(Log(called, "throw", "validator", 0, this.validator),
                                  InnerCatch(r.error))
        ELSE InvokeHandler(inv1, this)

\* STEP 2: a schema is parsed synchronously, a function is awaited.
ValidateInput(inv, this) ==
    LET inv1 == [inv EXCEPT !.validatedInput = inv.input]
        called == Log([inv1 EXCEPT !.validatorArgs = Append(@, inv.input)],
                      "call", "validator", 0, this.validator)
    IN  IF this.validator # undefined /\ inv.input # undefined
        THEN IF IsFunction(this.validator)
             THEN [called EXCEPT !.pc = "validator"]
             ELSE LET r == SchemaParse(inv.input)
                  IN  IF r.ok
                      THEN InvokeHandler(
                             Log([called EXCEPT !.validatedInput = r.value],
                                 "return", "validator", 0, this.validator),
                             this)
                      ELSE Finish(Log(called, "throw", "validator", 0, this.validator),
                                  InnerCatch(r.error))
        ELSE InvokeHandler(inv1, this)

\* Mutant of the loop: the next middleware is called as well, before the
\* current one has settled.
RunMiddlewaresFanOut(inv, this) ==
    IF inv.idx <= Len(this.middlewares)
    THEN LET first == Log([inv EXCEPT !.pc = "stage",
                                      !.received = Append(@, inv.context)],
                          "call", "stage", inv.idx, this.middlewares[inv.idx])
         IN  IF inv.idx + 1 <= Len(this.middlewares)
             THEN Log(first, "call", "stage", inv.idx + 1,
                      this.middlewares[inv.idx + 1])
             ELSE first
    ELSE ValidateInput(inv, this)

\* Mutant of the order of the steps: a schema is consulted at the top of
\* the function, before the first middleware.
RunMiddlewaresChecksFirst(inv, this) ==
    IF /\ inv.idx = 1
       /\ this.validator # undefined /\ ~IsFunction(this.validator)
       /\ inv.input # undefined
       /\ ~SchemaParse(inv.input).ok
    THEN Finish(Log([inv EXCEPT !.validatorArgs = Append(@, inv.input)],
                    "throw", "validator", 0, this.validator),
                InnerCatch(SchemaParse(inv.input).error))
    ELSE IF inv.idx <= Len(this.middlewares)
         THEN Log([inv EXCEPT !.pc = "stage", !.received = Append(@, inv.context)],
                  "call", "stage", inv.idx, this.middlewares[inv.idx])
         ELSE ValidateInput(inv, this)

\* STEP 1, the head of the for loop: call the next middleware and suspend
\* at its await, or leave the loop.
RunMiddlewares(inv, this) ==
    IF inv.idx <= Len(this.middlewares)
    THEN Log([inv EXCEPT !.pc = "stage", !.received = Append(@, inv.context)],
             "call", "stage", inv.idx, this.middlewares[inv.idx])
    ELSE ValidateInput(inv, this)

\* The builder object a running invocation reads through `this`.
This(inv) == builders[inv.callable.this]

Invoke(c, args) ==
    /\ invocations' = Append(invocations,
                             RunMiddlewares(InitInvocation(c, args),
                                            builders[c.this]))
    /\ UNCHANGED <<builders, history, thrown, callables>>

\* Mutant of the loop: a fault of a middleware is swallowed and the loop
\* goes on with the context it had.
StageSettlesSwallows(i) ==
    LET inv == invocations[i]
        r == StageFn(This(inv).middlewares[inv.idx], inv.context)
    IN  /\ inv.pc = "stage"
        /\ invocations' = [invocations EXCEPT ![i] =
              IF r.ok
              THEN RunMiddlewares(
                     Log([inv EXCEPT !.context = NextContext(inv.context, r.value),
                                     !.idx = @ + 1,
                                     !.returned = Append(@, r.value)],
                         "return", "stage", inv.idx,
                         This(inv).middlewares[inv.idx]), This(inv))
              ELSE RunMiddlewares(
                     Log([inv EXCEPT !.idx = @ + 1,
                                     !.returned = Append(@, inv.context)],
                         "throw", "stage", inv.idx,
                         This(inv).middlewares[inv.idx]), This(inv))]
        /\ UNCHANGED <<builders, history, thrown, callables>>

\* Mutant of the loop: a middleware that raised a fault is called a second
\* time before the fault is let through.
StageSettlesRetries(i) ==
    LET inv == invocations[i]
        r == StageFn(This(inv).middlewares[inv.idx], inv.context)
        calls == {k \in DOMAIN inv.trace :
                     inv.trace[k] = Event("call", "stage", inv.idx,
                                          This(inv).middlewares[inv.idx])}
    IN  /\ inv.pc = "stage"
        /\ invocations' = [invocations EXCEPT ![i] =
              IF r.ok
              THEN RunMiddlewares(
                     Log([inv EXCEPT !.context = NextContext(inv.context, r.value),
                                     !.idx = @ + 1,
                                     !.returned = Append(@, r.value)],
                         "return", "stage", inv.idx,
                         This(inv).middlewares[inv.idx]), This(inv))
              ELSE IF Cardinality(calls) < 2
                   THEN Log(inv, "call", "stage", inv.idx,
                            This(inv).middlewares[inv.idx])
                   ELSE Finish(Log(inv, "throw", "stage", inv.idx,
                                   This(inv).middlewares[inv.idx]),
                               OuterCatch(r.error))]
        /\ UNCHANGED <<builders, history, thrown, callables>>

\* The promise of the awaited middleware settles.
StageSettles(i) ==
    LET inv == invocations[i]
        r == StageFn(This(inv).middlewares[inv.idx], inv.context)
    IN  /\ inv.pc = "stage"
        /\ invocations' = [invocations EXCEPT ![i] =
              IF r.ok
              THEN RunMiddlewares(
                     Log([inv EXCEPT !.context = NextContext(inv.context, r.value),
                                     !.idx = @ + 1,
                                     !.returned = Append(@, r.value)],
                         "return", "stage", inv.idx,
                         This(inv).middlewares[inv.idx]), This(inv))
              ELSE Finish(Log(inv, "throw", "stage", inv.idx,
                              This(inv).middlewares[inv.idx]),
                          OuterCatch(r.error))]
        /\ UNCHANGED <<builders, history, thrown, callables>>

\* The promise of the awaited validation function settles.
ValidatorSettles(i) ==
    LET inv == invocations[i]
        r == PredFn(inv.input)
    IN  /\ inv.pc = "validator"
        /\ invocations' = [invocations EXCEPT ![i] =
              IF r.ok
              THEN InvokeHandler(Log([inv EXCEPT !.validatedInput = r.value],
                                     "return", "validator", 0,
                                     This(inv).validator), This(inv))
              ELSE Finish(Log(inv, "throw", "validator", 0, This(inv).validator),
                          InnerCatch(r.error))]
        /\ UNCHANGED <<builders, history, thrown, callables>>

\* Mutant of handler(): fn is kept on the builder, so the callables made
\* from one builder all run the handler one of them was given.
HandlerSettlesShared(i) ==
    LET inv == invocations[i]
        fn == (CHOOSE c \in callables : c.this = inv.callable.this).fn
        r == HandlerFn(fn, inv.handlerArgs[Len(inv.handlerArgs)])
    IN  /\ inv.pc = "handler"
        /\ invocations' = [invocations EXCEPT ![i] =
              IF r.ok
              THEN Finish(Log(inv, "return", "handler", 0, fn),
                          Resolved(Success(r.value)))
              ELSE Finish(Log(inv, "throw", "handler", 0, fn),
                          OuterCatch(r.error))]
        /\ UNCHANGED <<builders, history, thrown, callables>>

\* The promise of the awaited handler settles.
HandlerSettles(i) ==
    LET inv == invocations[i]
        r == HandlerFn(inv.callable.fn, inv.handlerArgs[Len(inv.handlerArgs)])
    IN  /\ inv.pc = "handler"
        /\ invocations' = [invocations EXCEPT ![i] =
              IF r.ok
              THEN Finish(Log(inv, "return", "handler", 0, inv.callable.fn),
                          Resolved(Success(r.value)))
              ELSE Finish(Log(inv, "throw", "handler", 0, inv.callable.fn),
                          OuterCatch(r.error))]
        /\ UNCHANGED <<builders, history, thrown, callables>>

Init ==
    /\ builders = <<createServerFn>>
    /\ history = <<[op |-> "createServerFn", parent |-> 0, arg |-> undefined]>>
    /\ thrown = NotThrown
    /\ callables = {}
    /\ invocations = <<>>

\* A validate() call that builds a builder needs room for it; one that
\* throws needs none.
RoomForValidate(b) == validateThrows(builders, b) \/ RoomForBuilder

RoomForClosure == Allocated < MaxObjects

RoomForInvocation == Allocated < MaxObjects /\ Len(invocations) < MaxInvocations

Next ==
    \/ \E b \in DOMAIN builders, s \in Stages : RoomForBuilder /\ CallUse(b, s)
    \/ \E b \in DOMAIN builders, v \in Validators :
          RoomForValidate(b) /\ CallValidate(b, v)
    \/ \E b \in DOMAIN builders, fn \in Handlers :
          RoomForClosure /\ CallHandler(b, fn)
    \/ \E c \in callables, args \in ArgsSet :
          RoomForInvocation /\ Invoke(c, args)
    \/ \E i \in DOMAIN invocations : StageSettles(i)
    \/ \E i \in DOMAIN invocations : ValidatorSettles(i)
    \/ \E i \in DOMAIN invocations : HandlerSettles(i)

Spec == Init /\ [][Next]_vars

(***************************************************************************)
(* SpecRun: the invocations of one compiled pipeline.  It starts where the *)
(* program is after createServerFn().use(s1)...use(sn), an optional        *)
(* validate(v) and handler(fn), and then only invokes the callable.        *)
(***************************************************************************)
RECURSIVE UseAll(_, _)
\* The heap after calling use() with each stage of `stages` in turn, each
\* on the builder the call before returned.
UseAll(heap, stages) ==
    IF stages = <<>> THEN heap
    ELSE UseAll(use(heap, Len(heap), Head(stages)), Tail(stages))

\* The record of those calls.
UseHistory(stages) ==
    [k \in 1..(Len(stages) + 1) |->
        IF k = 1 THEN [op |-> "createServerFn", parent |-> 0, arg |-> undefined]
        ELSE [op |-> "use", parent |-> k - 1, arg |-> stages[k - 1]]]

StageSeqs == UNION {[1..n -> Stages] : n \in 0..MaxStages}

InitRun ==
    \E stages \in StageSeqs, v \in {undefined} \cup Validators, fn \in RunHandlers :
        LET used == UseAll(<<createServerFn>>, stages) IN
        /\ builders = IF v = undefined THEN used
                      ELSE validate(used, Len(used), v)
        /\ history = IF v = undefined THEN UseHistory(stages)
                     ELSE Append(UseHistory(stages),
                                 [op |-> "validate", parent |-> Len(used), arg |-> v])
        /\ thrown = NotThrown
        /\ callables = {handler(IF v = undefined THEN Len(used) ELSE Len(used) + 1,
                                fn)}
        /\ invocations = <<>>

NextRun ==
    \/ \E c \in callables, args \in RunArgs :
          Len(invocations) < MaxRuns /\ Invoke(c, args)
    \/ \E i \in DOMAIN invocations : StageSettles(i)
    \/ \E i \in DOMAIN invocations : ValidatorSettles(i)
    \/ \E i \in DOMAIN invocations : HandlerSettles(i)

SpecRun == InitRun /\ [][NextRun]_vars

(***************************************************************************)
(* SpecLive: the runs of a pipeline when every stage, validator and        *)
(* handler that was called completes: the promise an activation awaits is  *)
(* settled at some point.  Nothing obliges a caller to call.               *)
(***************************************************************************)
\* The unit that activation i awaits settles.
Settles(i) ==
    /\ i \in DOMAIN invocations
    /\ (StageSettles(i) \/ ValidatorSettles(i) \/ HandlerSettles(i))

\* The pipelines SpecLive starts from: no stage; a stage that raises an
\* unclassified fault; a stage that returns and one that raises a Domain
\* Error; three stages that return.
LivePipelines ==
    {<<>>, <<"guard">>, <<"userId", "guard">>, <<"userId", "timestamp", "guard">>}

InitLive ==
    /\ InitRun
    /\ builders[Len(builders)].middlewares \in LivePipelines
    /\ \A c \in callables : c.fn \in Handlers

NextLive ==
    \/ \E c \in callables, args \in ArgsSet :
          Len(invocations) < MaxRuns /\ Invoke(c, args)
    \/ \E i \in DOMAIN invocations : StageSettles(i)
    \/ \E i \in DOMAIN invocations : ValidatorSettles(i)
    \/ \E i \in DOMAIN invocations : HandlerSettles(i)

SpecLive ==
    InitLive /\ [][NextLive]_vars /\ \A i \in 1..MaxRuns : WF_vars(Settles(i))

(***************************************************************************)
(* SpecPair: overlapping invocations of two sibling pipelines.  It starts   *)
(* where the program is after base = createServerFn().use(s0), the two     *)
(* siblings base.use(s1) and base.validate(v), and handler(fn) on each,    *)
(* and then invokes the two callables, letting the activations interleave  *)
(* at their awaits.                                                        *)
(***************************************************************************)
PairArgs == {NoArgs, [input |-> "partial"], [input |-> "full"]}

InitPair ==
    \E s0 \in Stages, s1 \in Stages, v \in Validators, fn \in Handlers :
        /\ builders = validate(use(use(<<createServerFn>>, 1, s0), 2, s1), 2, v)
        /\ history = <<[op |-> "createServerFn", parent |-> 0, arg |-> undefined],
                       [op |-> "use", parent |-> 1, arg |-> s0],
                       [op |-> "use", parent |-> 2, arg |-> s1],
                       [op |-> "validate", parent |-> 2, arg |-> v]>>
        /\ thrown = NotThrown
        /\ callables = {handler(3, fn), handler(4, fn)}
        /\ invocations = <<>>

NextPair ==
    \/ \E c \in callables, args \in PairArgs :
          Len(invocations) < MaxConcurrent /\ Invoke(c, args)
    \/ \E i \in DOMAIN invocations : StageSettles(i)
    \/ \E i \in DOMAIN invocations : ValidatorSettles(i)
    \/ \E i \in DOMAIN invocations : HandlerSettles(i)

SpecPair == InitPair /\ [][NextPair]_vars

(***************************************************************************)
(* SpecRaise: the handlers that raise a Domain Error.  It starts where the *)
(* program is after createServerFn().handler(async () => { throw new ... }) *)
(* for one `new` expression, and invokes the callable.                     *)
(***************************************************************************)
InitRaise ==
    \E fn \in Raisers :
        /\ builders = <<createServerFn>>
        /\ history = <<[op |-> "createServerFn", parent |-> 0, arg |-> undefined]>>
        /\ thrown = NotThrown
        /\ callables = {handler(1, fn)}
        /\ invocations = <<>>

NextRaise ==
    \/ \E c \in callables, args \in ArgsSet :
          Len(invocations) < MaxRuns /\ Invoke(c, args)
    \/ \E i \in DOMAIN invocations : HandlerSettles(i)

SpecRaise == InitRaise /\ [][NextRaise]_vars

(***************************************************************************)
(* Vocabulary of the properties.                                           *)
(***************************************************************************)
Last(seq) == seq[Len(seq)]

\* What the handler of invocation `inv` settled with, given what it was
\* called with.
HandlerResult(inv) == HandlerFn(inv.callable.fn, Last(inv.handlerArgs))

\* The validator `inv` called, and what it settled with.
ValidatorCalled(inv) ==
    inv.trace[CHOOSE k \in DOMAIN inv.trace :
                  inv.trace[k].unit = "validator" /\ inv.trace[k].ev = "call"].name

ValidatorResultOf(inv) ==
    IF ValidatorCalled(inv) = "pred" THEN PredFn(Last(inv.validatorArgs))
    ELSE SchemaParse(Last(inv.validatorArgs))

\* What the k-th stage called by `inv` settled with.
StageResult(inv, k) ==
    StageFn(builders[inv.callable.this].middlewares[k], inv.received[k])

\* A Domain Error is an instance of ServerFnError or of a subclass.
DomainError(e) == e.class = "ServerFnError"

\* The invocation ended because unit `unit` raised a fault.
EndedByThrow(inv, unit) ==
    /\ inv.pc = "done"
    /\ Len(inv.trace) > 0
    /\ Last(inv.trace).ev = "throw"
    /\ Last(inv.trace).unit = unit

\* C1: when the handler raises a Domain Error with code c and messages m,
\* the invocation resolves with exactly {ok: false, code: c, errors: m}.
C1_HandlerDomainError ==
    \A i \in DOMAIN invocations :
        LET inv == invocations[i] IN
        (EndedByThrow(inv, "handler") /\ DomainError(HandlerResult(inv).error))
            => inv.outcome = Resolved(Failure(HandlerResult(inv).error.code,
                                              HandlerResult(inv).error.errors))

\* A handler raised NOT_FOUND with two messages behind a stage and a
\* successful validation, and the envelope carries both, in order.
C1_Witness ==
    \E i \in DOMAIN invocations :
        LET inv == invocations[i] IN
        /\ EndedByThrow(inv, "handler")
        /\ Len(inv.returned) > 0
        /\ Len(inv.validatorArgs) > 0
        /\ inv.outcome = Resolved(Failure("NOT_FOUND",
                                          <<"Post not found", "Check the id">>))

\* C2: an unclassified fault raised by a stage or by the handler rejects the
\* invocation with that same fault; no envelope is produced.
C2_UnclassifiedPropagates ==
    \A i \in DOMAIN invocations :
        LET inv == invocations[i] IN
        /\ (EndedByThrow(inv, "handler") /\ ~DomainError(HandlerResult(inv).error))
              => inv.outcome = Rejected(HandlerResult(inv).error)
        /\ (EndedByThrow(inv, "stage")
              /\ ~DomainError(StageResult(inv, Last(inv.trace).pos).error))
              => inv.outcome = Rejected(StageResult(inv, Last(inv.trace).pos).error)

\* After a stage had returned, the handler raised a plain Error and the
\* invocation was rejected with it.
C2_Witness ==
    \E i \in DOMAIN invocations :
        /\ EndedByThrow(invocations[i], "handler")
        /\ Len(invocations[i].returned) > 0
        /\ invocations[i].outcome =
              Rejected(PlainError("System failure - this crashes!"))

\* C3: with a validator configured and input present, every fault of the
\* validator resolves the invocation with code VALIDATION_ERROR, and the
\* handler is not called.
C3_ValidatorFaultIsValidationError ==
    \A i \in DOMAIN invocations :
        LET inv == invocations[i] IN
        (/\ Len(inv.validatorArgs) > 0
         /\ inv.pc # "validator"
         /\ ~ValidatorResultOf(inv).ok)
            => /\ inv.pc = "done"
               /\ inv.outcome.kind = "Resolved"
               /\ inv.outcome.envelope.ok = FALSE
               /\ inv.outcome.envelope.code = "VALIDATION_ERROR"
               /\ inv.handlerArgs = <<>>

\* A function validator raised a Domain Error of its own in one invocation
\* and a plain Error in another; both ended with VALIDATION_ERROR.
C3_Witness ==
    \E i, j \in DOMAIN invocations :
        /\ EndedByThrow(invocations[i], "validator")
        /\ DomainError(ValidatorResultOf(invocations[i]).error)
        /\ ValidatorResultOf(invocations[i]).error.code = "CONFLICT"
        /\ invocations[i].outcome.envelope.code = "VALIDATION_ERROR"
        /\ EndedByThrow(invocations[j], "validator")
        /\ ValidatorResultOf(invocations[j]).error.class = "Error"
        /\ invocations[j].outcome.envelope.code = "VALIDATION_ERROR"

(***************************************************************************)
(* The chain of calls that built a builder, read from `history`.           *)
(***************************************************************************)
RECURSIVE Chain(_)
\* The stages declared along the chain of builder b, in declaration order.
Chain(b) ==
    IF history[b].op = "createServerFn" THEN <<>>
    ELSE IF history[b].op = "use"
         THEN Append(Chain(history[b].parent), history[b].arg)
         ELSE Chain(history[b].parent)

RECURSIVE ValidateCalls(_)
\* The number of validate() calls that returned along the chain of b.
ValidateCalls(b) ==
    IF history[b].op = "createServerFn" THEN 0
    ELSE ValidateCalls(history[b].parent)
            + (IF history[b].op = "validate" THEN 1 ELSE 0)

IsPrefix(a, b) == Len(a) <= Len(b) /\ a = SubSeq(b, 1, Len(a))

\* The stages an invocation has called so far, in call order.
StagesCalled(inv) ==
    LET calls == SelectSeq(inv.trace,
                           LAMBDA e : e.unit = "stage" /\ e.ev = "call")
    IN  [k \in 1..Len(calls) |-> calls[k].name]

\* C4: validate() on a builder that has a validator throws inside the call:
\* no builder is ever made by validate() from such a receiver, the fault is
\* thrown only by such a call, and no invocation ever ends with it.
C4_SecondValidatorThrows ==
    /\ \A k \in DOMAIN history :
          history[k].op = "validate"
              => builders[history[k].parent].validator = undefined
    /\ thrown.error # NoError
          => /\ thrown.error = ConfigError
             /\ builders[thrown.receiver].validator # undefined
    /\ \A i \in DOMAIN invocations :
          /\ invocations[i].outcome # Rejected(ConfigError)
          /\ invocations[i].outcome.kind = "Resolved"
                /\ ~invocations[i].outcome.envelope.ok
                => \A k \in DOMAIN invocations[i].outcome.envelope.errors :
                      invocations[i].outcome.envelope.errors[k] # ConfigError.message

\* A function validator was attached to a builder holding a schema, and the
\* call threw.
C4_Witness ==
    /\ thrown.error = ConfigError
    /\ builders[thrown.receiver].validator = "schema"
    /\ thrown.arg = "pred"

\* C5: no compiled callable comes from a chain in which validate() returned
\* twice.
C5_ValidateOncePerChain ==
    \A c \in callables : ValidateCalls(c.this) <= 1

\* C6: sibling builders made by use() from the same receiver hold the
\* receiver's stages followed by their own stage only, and an invocation
\* calls exactly the stages declared along the chain of its own builder.
C6_BranchesIndependent ==
    /\ \A k \in DOMAIN history :
          /\ history[k].op = "use"
                => builders[k].middlewares =
                      Append(builders[history[k].parent].middlewares, history[k].arg)
          /\ history[k].op = "validate"
                => builders[k].middlewares = builders[history[k].parent].middlewares
    /\ \A i \in DOMAIN invocations :
          LET inv == invocations[i] IN
          /\ IsPrefix(StagesCalled(inv), Chain(inv.callable.this))
          /\ (Len(inv.handlerArgs) > 0 \/ Len(inv.validatorArgs) > 0)
                => StagesCalled(inv) = Chain(inv.callable.this)

\* Two siblings were derived by use() from the same base, and a callable of
\* the first ran the base's stages and its own, then its handler.
C6_Witness ==
    \E b1, b2 \in DOMAIN builders, i \in DOMAIN invocations :
        /\ b1 # b2
        /\ history[b1].op = "use" /\ history[b2].op = "use"
        /\ history[b1].parent = history[b2].parent
        /\ history[b1].arg # history[b2].arg
        /\ invocations[i].callable.this = b1
        /\ invocations[i].pc = "done"
        /\ invocations[i].outcome.kind = "Resolved"
        /\ invocations[i].outcome.envelope.ok
        /\ StagesCalled(invocations[i]) = Chain(b1)

\* C7: no step changes a builder that exists: every builder operation
\* leaves its receiver, and every other builder, as it was.
C7_ReceiverUnchanged ==
    [][\A b \in DOMAIN builders :
          b \in DOMAIN builders' /\ builders'[b] = builders[b]]_vars

\* validate() returned twice on the same receiver, with different
\* validators, and the receiver still has none.
C7_Witness ==
    \E b1, b2 \in DOMAIN builders :
        /\ history[b1].op = "validate" /\ history[b2].op = "validate"
        /\ history[b1].parent = history[b2].parent
        /\ history[b1].arg # history[b2].arg
        /\ builders[history[b1].parent].validator = undefined

\* The stage events of an invocation, in the order they happened.
StageEvents(inv) == SelectSeq(inv.trace, LAMBDA e : e.unit = "stage")

\* C8: the stage events of an invocation are call 1, settle 1, call 2,
\* settle 2, ...: a stage is called only after the one before it returned,
\* nothing follows a throw, and the k-th stage called is the k-th stage
\* declared along the chain of the builder.
C8_StagesSequential ==
    \A i \in DOMAIN invocations :
        LET inv == invocations[i]
            E == StageEvents(inv)
        IN  \A k \in DOMAIN E :
                /\ k % 2 = 1 => E[k].ev = "call" /\ E[k].pos = (k + 1) \div 2
                /\ k % 2 = 0 => E[k].ev \in {"return", "throw"} /\ E[k].pos = k \div 2
                /\ E[k].ev = "throw" => k = Len(E)
                /\ E[k].pos <= Len(Chain(inv.callable.this))
                /\ E[k].name = Chain(inv.callable.this)[E[k].pos]

\* An invocation of a builder derived in two use() calls ran both stages,
\* one after the other, and succeeded.
C8_Witness ==
    \E i \in DOMAIN invocations :
        /\ Len(StageEvents(invocations[i])) = 4
        /\ invocations[i].pc = "done"
        /\ invocations[i].outcome.kind = "Resolved"
        /\ invocations[i].outcome.envelope.ok

\* C9: the first stage receives the empty context, every later stage what
\* the stage before it returned, and the handler what the last stage of the
\* pipeline returned (the empty context when there is no stage).
C9_ContextThreading ==
    \A i \in DOMAIN invocations :
        LET inv == invocations[i] IN
        /\ \A k \in DOMAIN inv.received :
              inv.received[k] = IF k = 1 THEN EmptyContext ELSE inv.returned[k - 1]
        /\ Len(inv.handlerArgs) > 0
              => /\ Len(inv.returned) = Len(Chain(inv.callable.this))
                 /\ Last(inv.handlerArgs).context =
                       IF Len(inv.returned) = 0 THEN EmptyContext
                       ELSE Last(inv.returned)

\* A handler was called with the output of the second stage, which does
\* not contain the output of the first.
C9_Witness ==
    \E i \in DOMAIN invocations :
        LET inv == invocations[i] IN
        /\ Len(inv.returned) = 2
        /\ ~(inv.returned[1] \subseteq inv.returned[2])
        /\ Len(inv.handlerArgs) = 1
        /\ Last(inv.handlerArgs).context = inv.returned[2]

\* C10 as stated: the context passed to a stage contains the output of
\* every stage before it.
C10_StageSeesAllEarlierOutputs ==
    \A i \in DOMAIN invocations :
        LET inv == invocations[i] IN
        \A k \in DOMAIN inv.received :
            \A j \in 1..(k - 1) : inv.returned[j] \subseteq inv.received[k]

\* C10 as amended: the context passed to stage k contains the output of an
\* earlier stage j when every stage between them returned a value that
\* includes the context it received (always so for the stage just before).
C10_StageSeesOutputsKeptBetween ==
    \A i \in DOMAIN invocations :
        LET inv == invocations[i] IN
        \A k \in DOMAIN inv.received :
            \A j \in 1..(k - 1) :
                (\A m \in (j + 1)..(k - 1) :
                    inv.received[m] \subseteq inv.returned[m])
                    => inv.returned[j] \subseteq inv.received[k]

\* A third stage received the output of the first through a second stage
\* that spread the context it received.
C10_Witness ==
    \E i \in DOMAIN invocations :
        LET inv == invocations[i] IN
        /\ Len(inv.received) = 3
        /\ inv.returned[1] # EmptyContext
        /\ inv.returned[2] # inv.returned[1]
        /\ inv.received[2] \subseteq inv.returned[2]
        /\ inv.returned[1] \subseteq inv.received[3]

\* What fn reads as `input` from its argument object.
InputSeen(args) == IF "input" \in DOMAIN args THEN args.input ELSE undefined

\* The builder of an invocation has no validator.
NoValidator(inv) == builders[inv.callable.this].validator = undefined

\* C11 as stated: a pipeline without a validator calls its handler with the
\* raw input of the call.
C11_RawInputReachesHandler ==
    \A i \in DOMAIN invocations :
        LET inv == invocations[i] IN
        (NoValidator(inv) /\ Len(inv.handlerArgs) > 0)
            => InputSeen(Last(inv.handlerArgs)) = inv.input

\* C11 as amended: a pipeline without a validator never runs a validator and
\* never ends in a validation failure, and it calls its handler, once its
\* stages have returned, with the composed context only: the argument object
\* has no input field, whatever the raw input was.
C11_NoValidatorContextOnly ==
    \A i \in DOMAIN invocations :
        LET inv == invocations[i] IN
        NoValidator(inv)
            => /\ inv.validatorArgs = <<>>
               /\ Len(inv.returned) = Len(Chain(inv.callable.this))
                     => Len(inv.handlerArgs) = 1
               /\ \A k \in DOMAIN inv.handlerArgs :
                     DOMAIN inv.handlerArgs[k] = {"context"}

\* A pipeline with a stage and no validator was called with a full input;
\* its handler ran without an input and its result came back as Success.
C11_Witness ==
    \E i \in DOMAIN invocations :
        LET inv == invocations[i] IN
        /\ NoValidator(inv)
        /\ inv.callable.fn = "echo"
        /\ inv.input = "full"
        /\ Len(inv.returned) > 0
        /\ inv.outcome = Resolved(Success([context |-> Last(inv.returned)]))

\* C12: with a validator configured and no input supplied (no argument, or
\* an argument without an input), the validator is never run, the handler
\* is called with the composed context and no input field, and the
\* invocation, unless a stage or the handler raised a fault, resolves with
\* Success carrying what the handler returned.
C12_AbsentInputSkipsValidation ==
    /\ ArgsInput(NoArgs) = undefined
    /\ ArgsInput(ArgsWithoutInput) = undefined
    /\ \A i \in DOMAIN invocations :
          LET inv == invocations[i] IN
          (~NoValidator(inv) /\ inv.input = undefined)
              => /\ inv.validatorArgs = <<>>
                 /\ inv.pc # "validator"
                 /\ \A k \in DOMAIN inv.handlerArgs :
                       DOMAIN inv.handlerArgs[k] = {"context"}
                 /\ Len(inv.returned) = Len(Chain(inv.callable.this))
                       => Len(inv.handlerArgs) = 1
                 /\ inv.pc = "done"
                       => \/ EndedByThrow(inv, "stage")
                          \/ EndedByThrow(inv, "handler")
                          \/ /\ HandlerResult(inv).ok
                             /\ inv.outcome =
                                   Resolved(Success(HandlerResult(inv).value))

\* A pipeline with a stage and a schema was called without input: the
\* schema was not consulted and the handler's result came back as Success.
C12_Witness ==
    \E i \in DOMAIN invocations :
        LET inv == invocations[i] IN
        /\ builders[inv.callable.this].validator = "schema"
        /\ inv.callable.fn = "echo"
        /\ inv.input = undefined
        /\ Len(inv.returned) > 0
        /\ inv.validatorArgs = <<>>
        /\ inv.outcome = Resolved(Success([context |-> Last(inv.returned)]))

\* The context an invocation has composed when its stages have returned.
Composed(inv) ==
    IF Len(inv.returned) = 0 THEN EmptyContext ELSE Last(inv.returned)

\* The validator of `inv` was run and returned a defined value.
Validated(inv) ==
    /\ Len(inv.validatorArgs) > 0
    /\ inv.pc # "validator"
    /\ ValidatorResultOf(inv).ok
    /\ ValidatorResultOf(inv).value # undefined

\* C13: when the validator returns a defined value x, the handler is called
\* once, with { input: x, context } where context is the composed context,
\* and when the handler returns r the invocation resolves with exactly
\* { ok: true, data: r }, whatever r is.
C13_SuccessPath ==
    \A i \in DOMAIN invocations :
        LET inv == invocations[i] IN
        Validated(inv)
            => /\ inv.handlerArgs = <<[input |-> ValidatorResultOf(inv).value,
                                       context |-> Composed(inv)]>>
               /\ (inv.pc = "done" /\ HandlerResult(inv).ok)
                     => inv.outcome = Resolved([ok |-> TRUE,
                                                data |-> HandlerResult(inv).value])

\* Behind a stage and a validator that turned the raw input into another
\* value, a handler echoed its argument: the input it saw is the validator's
\* result, not the raw input, and the envelope carries its result as it is.
C13_Witness ==
    \E i \in DOMAIN invocations :
        LET inv == invocations[i] IN
        /\ Validated(inv)
        /\ inv.pc = "done"
        /\ inv.callable.fn = "echo"
        /\ Len(inv.returned) > 0
        /\ inv.outcome.envelope.ok
        /\ inv.outcome.envelope.data.input = ValidatorResultOf(inv).value
        /\ inv.outcome.envelope.data.input # inv.input
        /\ inv.outcome.envelope.data.context = Last(inv.returned)

\* The schema of `inv` was run and rejected the input.
SchemaRejected(inv) ==
    /\ Len(inv.validatorArgs) > 0
    /\ ValidatorCalled(inv) = "schema"
    /\ ~SchemaParse(Last(inv.validatorArgs)).ok

\* C14: when a schema rejects the input with the issues d1..dn, the
\* invocation resolves with code VALIDATION_ERROR and an errors list of
\* length n whose k-th entry is the message of dk.
C14_SchemaMessagesInOrder ==
    \A i \in DOMAIN invocations :
        LET inv == invocations[i]
            issues == SchemaParse(Last(inv.validatorArgs)).error.issues
        IN  SchemaRejected(inv)
                => /\ inv.pc = "done"
                   /\ inv.outcome.kind = "Resolved"
                   /\ inv.outcome.envelope.ok = FALSE
                   /\ inv.outcome.envelope.code = "VALIDATION_ERROR"
                   /\ Len(inv.outcome.envelope.errors) = Len(issues)
                   /\ \A k \in DOMAIN issues :
                         inv.outcome.envelope.errors[k] = issues[k].message

\* A schema with two fields rejected an empty object: both messages are in
\* the envelope, the title's before the content's.
C14_Witness ==
    \E i \in DOMAIN invocations :
        LET inv == invocations[i] IN
        /\ SchemaRejected(inv)
        /\ inv.input = "empty"
        /\ inv.outcome = Resolved(Failure("VALIDATION_ERROR",
                                          <<"Title required", "Content too short">>))

\* String t occurs in string s.
Contains(s, t) ==
    \E k \in 1..(Len(s) - Len(t) + 1) : SubSeq(s, k, k + Len(t) - 1) = t

\* The function validator of `inv` was run and raised a fault.
PredicateRaised(inv) ==
    /\ Len(inv.validatorArgs) > 0
    /\ inv.pc # "validator"
    /\ ValidatorCalled(inv) = "pred"
    /\ ~PredFn(Last(inv.validatorArgs)).ok

\* C15: when a function validator raises a fault with description d, the
\* invocation resolves with code VALIDATION_ERROR and exactly one message, a
\* string that contains d; when the fault is a Domain Error with code c and
\* messages m, the envelope's errors are not m, and its code is c only when
\* c is VALIDATION_ERROR itself.
C15_PredicateFaultCollapsed ==
    \A i \in DOMAIN invocations :
        LET inv == invocations[i]
            fault == PredFn(Last(inv.validatorArgs)).error
        IN  PredicateRaised(inv)
                => /\ inv.pc = "done"
                   /\ inv.outcome.kind = "Resolved"
                   /\ inv.outcome.envelope.ok = FALSE
                   /\ inv.outcome.envelope.code = "VALIDATION_ERROR"
                   /\ Len(inv.outcome.envelope.errors) = 1
                   /\ Contains(inv.outcome.envelope.errors[1], fault.message)
                   /\ DomainError(fault)
                         => /\ inv.outcome.envelope.errors # fault.errors
                            /\ fault.code # "VALIDATION_ERROR"
                                  => inv.outcome.envelope.code # fault.code

\* A function validator raised CONFLICT with two messages: the envelope has
\* code VALIDATION_ERROR and the one string made from the fault.
C15_Witness ==
    \E i \in DOMAIN invocations :
        LET inv == invocations[i] IN
        /\ PredicateRaised(inv)
        /\ PredFn(Last(inv.validatorArgs)).error.code = "CONFLICT"
        /\ Len(PredFn(Last(inv.validatorArgs)).error.errors) = 2
        /\ inv.outcome =
              Resolved(Failure("VALIDATION_ERROR",
                               <<"Validation failed: ServerFnError: Lookup failed">>))

\* C16: a fault raised by stage k is the last thing its invocation does:
\* the stages called are the first k of the pipeline, neither the validator
\* nor the handler is run, and the invocation resolves with the fault's code
\* and messages when it is a Domain Error and rejects with the fault itself
\* when it is not.
C16_StageFaultAborts ==
    \A i \in DOMAIN invocations :
        LET inv == invocations[i] IN
        \A n \in DOMAIN inv.trace :
            (inv.trace[n].unit = "stage" /\ inv.trace[n].ev = "throw")
                => LET k == inv.trace[n].pos
                       fault == StageResult(inv, k).error
                   IN  /\ n = Len(inv.trace)
                       /\ inv.pc = "done"
                       /\ StagesCalled(inv) = SubSeq(Chain(inv.callable.this), 1, k)
                       /\ inv.validatorArgs = <<>>
                       /\ inv.handlerArgs = <<>>
                       /\ inv.outcome =
                             IF DomainError(fault)
                             THEN Resolved(Failure(fault.code, fault.errors))
                             ELSE Rejected(fault)

\* The second of three stages raised FORBIDDEN in a pipeline with a
\* validator, called with an input: the third stage, the validator and the
\* handler were not run and the envelope carries the fault.
C16_Witness ==
    \E i \in DOMAIN invocations :
        LET inv == invocations[i] IN
        /\ EndedByThrow(inv, "stage")
        /\ Last(inv.trace).pos = 2
        /\ Len(Chain(inv.callable.this)) = 3
        /\ ~NoValidator(inv)
        /\ inv.input = "full"
        /\ Len(StagesCalled(inv)) = 2
        /\ inv.outcome = Resolved(Failure("FORBIDDEN", <<"Admin required">>))

(***************************************************************************)
(* The outcome of a call that runs alone, from its first line to its last  *)
(* without any other activation in between (lines 390-459 read top down).  *)
(***************************************************************************)
RECURSIVE ComposeAlone(_, _, _)
\* The for loop from the k-th middleware on, started with `context`.
ComposeAlone(middlewares, k, context) ==
    IF k > Len(middlewares) THEN Value(context)
    ELSE LET r == StageFn(middlewares[k], context)
         IN  IF r.ok THEN ComposeAlone(middlewares, k + 1, r.value) ELSE r

OutcomeAlone(this, fn, input) ==
    LET composed == ComposeAlone(this.middlewares, 1, EmptyContext)
        checked == IF this.validator # undefined /\ input # undefined
                   THEN IF IsFunction(this.validator) THEN PredFn(input)
                        ELSE SchemaParse(input)
                   ELSE Value(input)
    IN  IF ~composed.ok THEN OuterCatch(composed.error)
        ELSE IF ~checked.ok THEN InnerCatch(checked.error)
        ELSE LET result == HandlerFn(fn, HandlerArgs(this.validator, checked.value,
                                                     composed.value))
             IN  IF result.ok THEN Resolved(Success(result.value))
                 ELSE OuterCatch(result.error)

\* C17: however the activations interleave, the first stage of an
\* invocation receives the empty context, every later stage what the stage
\* before it returned in the same invocation, the handler the context that
\* invocation composed and the input that invocation validated, and a
\* finished invocation has the outcome it has when it runs alone.
C17_InvocationsIsolated ==
    \A i \in DOMAIN invocations :
        LET inv == invocations[i] IN
        /\ \A k \in DOMAIN inv.received :
              inv.received[k] = IF k = 1 THEN EmptyContext ELSE inv.returned[k - 1]
        /\ \A k \in DOMAIN inv.returned :
              inv.returned[k] = StageResult(inv, k).value
        /\ \A k \in DOMAIN inv.validatorArgs : inv.validatorArgs[k] = inv.input
        /\ \A k \in DOMAIN inv.handlerArgs :
              /\ inv.handlerArgs[k].context = Composed(inv)
              /\ "input" \in DOMAIN inv.handlerArgs[k]
                    => inv.handlerArgs[k].input = ValidatorResultOf(inv).value
        /\ inv.pc = "done"
              => inv.outcome = OutcomeAlone(This(inv), inv.callable.fn, inv.input)

\* Two sibling pipelines ran at the same time: the invocation started
\* first is still waiting for its handler, with the context of its own two
\* stages, while the one started after it, on the sibling, has finished.
C17_Witness ==
    /\ Len(invocations) = 2
    /\ invocations[1].callable.this # invocations[2].callable.this
    /\ history[invocations[1].callable.this].parent =
          history[invocations[2].callable.this].parent
    /\ invocations[1].pc = "handler"
    /\ Len(invocations[1].returned) = 2
    /\ invocations[1].context # EmptyContext
    /\ invocations[2].pc = "done"
    /\ invocations[2].context # invocations[1].context
    /\ invocations[2].outcome.kind = "Resolved"
    /\ invocations[2].outcome.envelope.ok

\* C18: two finished invocations of the same callable with the same input
\* have the same outcome, and they did the same things on the way: the same
\* calls with the same arguments, settled in the same way.
C18_RepeatedInvocationSameOutcome ==
    \A i, j \in DOMAIN invocations :
        (/\ invocations[i].callable = invocations[j].callable
         /\ invocations[i].input = invocations[j].input
         /\ invocations[i].pc = "done"
         /\ invocations[j].pc = "done")
            => /\ invocations[i].outcome = invocations[j].outcome
               /\ invocations[i].trace = invocations[j].trace
               /\ invocations[i].received = invocations[j].received
               /\ invocations[i].handlerArgs = invocations[j].handlerArgs

\* One callable was called twice with the same input; both calls ran two
\* stages and the handler, and both resolved with the same Success.
C18_Witness ==
    /\ Len(invocations) = 2
    /\ invocations[1].callable = invocations[2].callable
    /\ invocations[1].input = "full"
    /\ invocations[2].input = "full"
    /\ invocations[1].pc = "done"
    /\ invocations[2].pc = "done"
    /\ Len(invocations[2].returned) = 2
    /\ invocations[2].outcome.kind = "Resolved"
    /\ invocations[2].outcome.envelope.ok
    /\ invocations[1].outcome = invocations[2].outcome

\* The invocation ended because a stage or the handler raised a fault that
\* is not a Domain Error.
UnclassifiedFault(inv) ==
    \/ /\ EndedByThrow(inv, "stage")
       /\ ~DomainError(StageResult(inv, Last(inv.trace).pos).error)
    \/ /\ EndedByThrow(inv, "handler")
       /\ ~DomainError(HandlerResult(inv).error)

\* C19: an invocation that has not finished has no outcome; one that has
\* finished either resolved with a Success envelope, or resolved with a
\* Failure envelope, or rejected, and it rejected exactly when a stage or
\* the handler raised a fault that is not a Domain Error.  A fault of the
\* validator and a Domain Error of a stage or of the handler end in Failure.
C19_CallingContract ==
    \A i \in DOMAIN invocations :
        LET inv == invocations[i] IN
        /\ inv.pc # "done" => inv.outcome = Pending
        /\ inv.pc = "done"
              => /\ inv.outcome.kind \in {"Resolved", "Rejected"}
                 /\ inv.outcome.kind = "Resolved"
                       => \/ DOMAIN inv.outcome.envelope = {"ok", "data"}
                             /\ inv.outcome.envelope.ok = TRUE
                          \/ DOMAIN inv.outcome.envelope = {"ok", "code", "errors"}
                             /\ inv.outcome.envelope.ok = FALSE
                 /\ inv.outcome.kind = "Rejected" <=> UnclassifiedFault(inv)
                 /\ (EndedByThrow(inv, "validator")
                        \/ (Last(inv.trace).ev = "throw" /\ ~UnclassifiedFault(inv)))
                       => /\ inv.outcome.kind = "Resolved"
                          /\ inv.outcome.envelope.ok = FALSE
                 /\ Last(inv.trace).ev = "return"
                       => /\ inv.outcome.kind = "Resolved"
                          /\ inv.outcome.envelope.ok = TRUE

\* In a pipeline with a validator, called with an input, the first stage
\* raised a plain Error and the invocation rejected with it.
C19_Witness ==
    \E i \in DOMAIN invocations :
        LET inv == invocations[i] IN
        /\ ~NoValidator(inv)
        /\ inv.input = "full"
        /\ EndedByThrow(inv, "stage")
        /\ inv.outcome.kind = "Rejected"
        /\ inv.outcome.fault = PlainError("Cannot read properties of undefined")

\* The code and the default description the spec gives for a class.
FixedCode(class) ==
    CASE class = "ValidationError" -> "VALIDATION_ERROR"
      [] class = "UnauthorizedError" -> "UNAUTHORIZED"
      [] class = "ForbiddenError" -> "FORBIDDEN"
      [] class = "NotFoundError" -> "NOT_FOUND"

DefaultDescription(class) ==
    CASE class = "ValidationError" -> "Validation failed"
      [] class = "UnauthorizedError" -> "Unauthorized"
      [] class = "ForbiddenError" -> "Forbidden"
      [] class = "NotFoundError" -> "Not found"

\* C20: for the error a handler raised with `new`: a ServerFnError given no
\* code has code SERVER_ERROR and one given a code has that code; a
\* specialization has its fixed code, and its default description when
\* none was given; the messages are the list given when it is not empty
\* and the description alone otherwise.  The invocation resolves with a
\* Failure envelope carrying that code and those messages: every one of
\* the classes is a Domain Error to the executor.
C20_ErrorDefaults ==
    \A i \in DOMAIN invocations :
        LET inv == invocations[i]
            call == Thrown(inv.callable.fn)
            base == call.class = "ServerFnError"
            d == IF call.message = undefined THEN DefaultDescription(call.class)
                 ELSE call.message
            c == IF base
                 THEN IF call.code \in {undefined, ""} THEN "SERVER_ERROR"
                      ELSE call.code
                 ELSE FixedCode(call.class)
            m == IF call.errors = NoErrors THEN <<d>> ELSE call.errors
        IN  inv.pc = "done"
                => /\ HandlerResult(inv).error.message = d
                   /\ HandlerResult(inv).error.code = c
                   /\ HandlerResult(inv).error.errors = m
                   /\ inv.outcome = Resolved([ok |-> FALSE, code |-> c, errors |-> m])

\* A handler raised `new NotFoundError()`: the invocation resolved with
\* code NOT_FOUND and the default description as its only message.
C20_Witness ==
    \E i \in DOMAIN invocations :
        LET inv == invocations[i] IN
        /\ Thrown(inv.callable.fn) =
              [class |-> "NotFoundError", message |-> undefined,
               code |-> undefined, errors |-> NoErrors]
        /\ inv.outcome = Resolved(Failure("NOT_FOUND", <<"Not found">>))

\* C21: a compiled callable is closed: no step removes it or changes the
\* stage sequence or the validator of the builder it closes over, and a
\* step that is a builder operation (use, validate or handler, on any
\* builder) leaves every activation as it was.
C21_CompiledCallableFixed ==
    [][/\ \A c \in callables :
             /\ c \in callables'
             /\ builders'[c.this].middlewares = builders[c.this].middlewares
             /\ builders'[c.this].validator = builders[c.this].validator
       /\ (builders' # builders \/ callables' # callables \/ thrown' # thrown)
             => invocations' = invocations]_vars

\* A callable compiled from createServerFn() was called with an input while
\* the same builder was also extended with a stage and with a validator:
\* the call ran no stage and no validator, and its handler got no input.
C21_Witness ==
    \E c \in callables, b1, b2 \in DOMAIN builders, i \in DOMAIN invocations :
        /\ history[b1].op = "use" /\ history[b1].parent = c.this
        /\ history[b2].op = "validate" /\ history[b2].parent = c.this
        /\ invocations[i].callable = c
        /\ invocations[i].input = "full"
        /\ invocations[i].pc = "done"
        /\ invocations[i].trace =
              <<Event("call", "handler", 0, c.fn), Event("return", "handler", 0, c.fn)>>
        /\ invocations[i].handlerArgs = <<[context |-> EmptyContext]>>

\* The events of `inv` before its n-th that are returns of a stage.
StageReturnsBefore(inv, n) ==
    {k \in 1..(n - 1) : inv.trace[k].unit = "stage" /\ inv.trace[k].ev = "return"}

\* What the validator of the builder of `inv` makes of the input of `inv`.
WouldValidate(inv) ==
    IF IsFunction(This(inv).validator) THEN PredFn(inv.input)
    ELSE SchemaParse(inv.input)

\* C22: in the trace of an invocation, the validator is called, and settles,
\* only after every stage of the pipeline has returned, and the handler only after
\* every stage has returned and the validator, if it was called, has
\* returned just before; nothing is called after a fault.  So when a stage
\* raises a Domain Error, the validator is not consulted and the envelope
\* carries the stage's code, also for an input the validator rejects.
C22_PhaseOrdering ==
    \A i \in DOMAIN invocations :
        LET inv == invocations[i]
            n == Len(Chain(inv.callable.this))
        IN  /\ \A k \in DOMAIN inv.trace :
                  /\ inv.trace[k].ev = "throw" => k = Len(inv.trace)
                  /\ inv.trace[k].unit = "validator"
                        => Cardinality(StageReturnsBefore(inv, k)) = n
                  /\ (inv.trace[k].unit = "handler" /\ inv.trace[k].ev = "call")
                        => /\ Cardinality(StageReturnsBefore(inv, k)) = n
                           /\ IF Len(inv.validatorArgs) > 0
                              THEN /\ inv.trace[k - 1].unit = "validator"
                                   /\ inv.trace[k - 1].ev = "return"
                              ELSE NoValidator(inv) \/ inv.input = undefined
            /\ (EndedByThrow(inv, "stage")
                   /\ DomainError(StageResult(inv, Last(inv.trace).pos).error))
                  => /\ inv.validatorArgs = <<>>
                     /\ inv.outcome.kind = "Resolved"
                     /\ inv.outcome.envelope.code =
                           StageResult(inv, Last(inv.trace).pos).error.code

\* A stage raised FORBIDDEN in a pipeline whose schema rejects the input
\* supplied: the envelope has the stage's code and messages.
C22_Witness ==
    \E i \in DOMAIN invocations :
        LET inv == invocations[i] IN
        /\ This(inv).validator = "schema"
        /\ inv.input = "empty"
        /\ ~WouldValidate(inv).ok
        /\ EndedByThrow(inv, "stage")
        /\ inv.outcome = Resolved(Failure("FORBIDDEN", <<"Admin required">>))

\* C23: a builder made by use() has the validator of its receiver.
C23_UseKeepsValidator ==
    \A k \in DOMAIN history :
        history[k].op = "use"
            => builders[k].validator = builders[history[k].parent].validator

\* C24: the handler is called with an input field exactly when its builder
\* has a validator and the validator was run and returned a defined value,
\* and the field then holds that value.  When a function validator returns
\* undefined, the handler is called once, with the composed context only,
\* and when it returns the invocation resolves with Success.
C24_HandlerShape ==
    \A i \in DOMAIN invocations :
        LET inv == invocations[i] IN
        /\ \A k \in DOMAIN inv.handlerArgs :
              /\ "input" \in DOMAIN inv.handlerArgs[k]
                    <=> (~NoValidator(inv) /\ Validated(inv))
              /\ "input" \in DOMAIN inv.handlerArgs[k]
                    => /\ inv.handlerArgs[k].input = ValidatorResultOf(inv).value
                       /\ inv.handlerArgs[k].input # undefined
        /\ (/\ Len(inv.validatorArgs) > 0
            /\ inv.pc # "validator"
            /\ ValidatorResultOf(inv) = Value(undefined))
              => /\ inv.handlerArgs = <<[context |-> Composed(inv)]>>
                 /\ (inv.pc = "done" /\ HandlerResult(inv).ok)
                       => inv.outcome = Resolved(Success(HandlerResult(inv).value))

\* A function validator was handed `false` and returned nothing: the
\* handler ran behind a stage with the context only, and its result came
\* back as Success.
C24_Witness ==
    \E i \in DOMAIN invocations :
        LET inv == invocations[i] IN
        /\ inv.validatorArgs = <<"false">>
        /\ inv.pc = "done"
        /\ ValidatorCalled(inv) = "pred"
        /\ ValidatorResultOf(inv) = Value(undefined)
        /\ inv.callable.fn = "echo"
        /\ Len(inv.returned) > 0
        /\ inv.outcome = Resolved(Success([context |-> Last(inv.returned)]))

\* The input of `inv` is present.
InputPresent(inv) == inv.input # undefined

\* C25: with a validator configured and an input present, be it null, an
\* empty object, an empty string, 0 or false, the validator is called with
\* that input as soon as the stages have returned, and before the handler;
\* when it rejects the input the invocation resolves with code
\* VALIDATION_ERROR and the handler is not called.
C25_PresentInputValidated ==
    \A i \in DOMAIN invocations :
        LET inv == invocations[i] IN
        (~NoValidator(inv) /\ InputPresent(inv))
            => /\ Len(inv.returned) = Len(Chain(inv.callable.this))
                     => inv.validatorArgs = <<inv.input>>
               /\ Len(inv.handlerArgs) > 0 => inv.validatorArgs = <<inv.input>>
               /\ (inv.pc = "done" /\ Len(inv.validatorArgs) > 0
                      /\ ~ValidatorResultOf(inv).ok)
                     => /\ inv.handlerArgs = <<>>
                        /\ inv.outcome.kind = "Resolved"
                        /\ inv.outcome.envelope.ok = FALSE
                        /\ inv.outcome.envelope.code = "VALIDATION_ERROR"

\* Behind a stage, a schema was handed the input 0 and rejected it: the
\* envelope is the validation failure and the handler did not run.
C25_Witness ==
    \E i \in DOMAIN invocations :
        LET inv == invocations[i] IN
        /\ inv.input = "zero"
        /\ Len(inv.returned) > 0
        /\ inv.validatorArgs = <<"zero">>
        /\ inv.handlerArgs = <<>>
        /\ inv.outcome = Resolved(Failure("VALIDATION_ERROR",
                                          <<"Expected object, received zero">>))

\* The calls of unit `unit` at position `pos` in the trace of `inv`.
CallsOf(inv, unit, pos) ==
    {k \in DOMAIN inv.trace :
        /\ inv.trace[k].ev = "call"
        /\ inv.trace[k].unit = unit
        /\ inv.trace[k].pos = pos}

\* No unit is called twice in `inv`; when `inv` ended in Success, every
\* stage, the validator if there is one and the input is present, and the
\* handler were called exactly once.
NoRetries(inv) ==
    /\ \A pos \in 1..Len(Chain(inv.callable.this)) :
          Cardinality(CallsOf(inv, "stage", pos)) <= 1
    /\ Cardinality(CallsOf(inv, "validator", 0)) <= 1
    /\ Cardinality(CallsOf(inv, "handler", 0)) <= 1
    /\ (inv.pc = "done" /\ inv.outcome.kind = "Resolved" /\ inv.outcome.envelope.ok)
          => /\ \A pos \in 1..Len(Chain(inv.callable.this)) :
                   Cardinality(CallsOf(inv, "stage", pos)) = 1
             /\ Cardinality(CallsOf(inv, "validator", 0)) =
                   IF ~NoValidator(inv) /\ InputPresent(inv) THEN 1 ELSE 0
             /\ Cardinality(CallsOf(inv, "handler", 0)) = 1

\* An activation changes only when the unit it awaits settles, so it
\* finishes only then: there is no timeout.
OnlySettlingCompletes ==
    \A i \in DOMAIN invocations :
        invocations'[i] # invocations[i]
            => /\ invocations[i].pc # "done"
               /\ Len(invocations'[i].trace) > Len(invocations[i].trace)
               /\ invocations'[i].trace[Len(invocations[i].trace) + 1].ev
                     \in {"return", "throw"}
               /\ invocations'[i].trace[Len(invocations[i].trace) + 1].unit
                     = invocations[i].pc

\* C26: when every unit that is called completes, every invocation that
\* was started finishes; no unit is ever called twice in an invocation and
\* each is called exactly once in one that ends in Success; and an
\* invocation finishes only by a unit settling.
C26_TerminatesWithoutRetries ==
    /\ [](\A i \in DOMAIN invocations : NoRetries(invocations[i]))
    /\ [][OnlySettlingCompletes]_vars
    /\ \A i \in 1..MaxRuns :
          (i \in DOMAIN invocations)
              ~> (i \in DOMAIN invocations /\ invocations[i].pc = "done")

\* An invocation ended in Success after three stages, a function validator
\* and the handler, each called once.
C26_Witness ==
    \E i \in DOMAIN invocations :
        LET inv == invocations[i] IN
        /\ inv.pc = "done"
        /\ inv.outcome.kind = "Resolved"
        /\ inv.outcome.envelope.ok
        /\ Len(Chain(inv.callable.this)) = 3
        /\ Len(inv.validatorArgs) = 1
        /\ ValidatorCalled(inv) = "pred"
        /\ Len(inv.trace) = 10
        /\ NoRetries(inv)

\* The events of unit `unit` in the trace of `inv`.
EventsOf(inv, unit) == SelectSeq(inv.trace, LAMBDA e : e.unit = unit)

\* C27: however many callables were compiled from a builder, and whatever
\* was derived from it, an invocation of one of them calls the stages of
\* that builder, its validator, and the handler given to the handler() call
\* that made this callable and no other; it ends as that handler ends.
C27_FinalizeLeavesReceiverOpen ==
    \A i \in DOMAIN invocations :
        LET inv == invocations[i] IN
        /\ inv.callable \in callables
        /\ IsPrefix(StagesCalled(inv), This(inv).middlewares)
        /\ \A k \in DOMAIN EventsOf(inv, "validator") :
              EventsOf(inv, "validator")[k].name = This(inv).validator
        /\ \A k \in DOMAIN EventsOf(inv, "handler") :
              EventsOf(inv, "handler")[k].name = inv.callable.fn
        /\ Len(EventsOf(inv, "handler")) <= 2
        /\ inv.pc = "done"
              => inv.outcome = OutcomeAlone(This(inv), inv.callable.fn, inv.input)

\* One builder was given two handlers; both callables were called, one
\* resolved with Success and the other with its own handler's NOT_FOUND.
C27_Witness ==
    \E c1, c2 \in callables, i, j \in DOMAIN invocations :
        /\ c1.this = c2.this
        /\ c1.fn = "echo" /\ c2.fn = "soft"
        /\ invocations[i].callable = c1
        /\ invocations[j].callable = c2
        /\ invocations[i].pc = "done" /\ invocations[j].pc = "done"
        /\ invocations[i].outcome.envelope.ok
        /\ invocations[j].outcome.envelope.ok = FALSE
        /\ invocations[j].outcome.envelope.code = "NOT_FOUND"

\* C28: a validate() call that throws changes nothing but the fault in
\* flight: the builders, the callables and the activations are as before.
\* While that fault is the latest outcome of a builder call, the receiver
\* has a validator, the one its own validate() call gave it, and every
\* invocation of a callable of the receiver that ran a validator ran that
\* one, with the receiver's stages.
C28_FailedValidateChangesNothing ==
    /\ [][(thrown'.error = ConfigError /\ thrown' # thrown)
             => /\ builders' = builders
                /\ history' = history
                /\ callables' = callables
                /\ invocations' = invocations]_vars
    /\ [](thrown.error = ConfigError
            => /\ builders[thrown.receiver].validator # undefined
               /\ history[thrown.receiver].op = "validate"
               /\ builders[thrown.receiver].validator = history[thrown.receiver].arg
               /\ builders[thrown.receiver].middlewares = Chain(thrown.receiver)
               /\ \A i \in DOMAIN invocations :
                     (invocations[i].callable.this = thrown.receiver
                        /\ Len(invocations[i].validatorArgs) > 0)
                       => ValidatorCalled(invocations[i]) =
                             history[thrown.receiver].arg)

\* validate(schema) threw on a builder that holds a function validator, and
\* a callable of that builder validated a full input with the function.
C28_Witness ==
    /\ thrown.error = ConfigError
    /\ thrown.arg = "schema"
    /\ builders[thrown.receiver].validator = "pred"
    /\ \E i \in DOMAIN invocations :
          /\ invocations[i].callable.this = thrown.receiver
          /\ invocations[i].pc = "done"
          /\ invocations[i].validatorArgs = <<"full">>
          /\ ValidatorCalled(invocations[i]) = "pred"
          /\ Last(invocations[i].handlerArgs).input = "validated"

\* The invocation resolved with a Failure envelope.
ReturnedFailure(inv) ==
    /\ inv.pc = "done"
    /\ inv.outcome.kind = "Resolved"
    /\ inv.outcome.envelope.ok = FALSE

\* C29: the errors list of every Failure envelope has at least one entry.
\* When a stage or the handler raised a Domain Error, it is the error's
\* list, which is the list given to the constructor when that has an entry
\* and the one-entry list of the description when none was given; when a
\* function validator raised, it has exactly one entry; when a schema
\* rejected, it has one entry per issue, and there is at least one issue.
C29_FailureHasMessages ==
    \A i \in DOMAIN invocations :
        LET inv == invocations[i]
            errors == inv.outcome.envelope.errors
        IN  ReturnedFailure(inv)
                => /\ Len(errors) >= 1
                   /\ \/ EndedByThrow(inv, "stage")
                      \/ EndedByThrow(inv, "validator")
                      \/ EndedByThrow(inv, "handler")
                   /\ EndedByThrow(inv, "stage")
                         => LET fault == StageResult(inv, Last(inv.trace).pos).error
                            IN  /\ DomainError(fault)
                                /\ errors = fault.errors
                                /\ errors = <<fault.message>>
                   /\ EndedByThrow(inv, "handler")
                         => /\ DomainError(HandlerResult(inv).error)
                            /\ errors = HandlerResult(inv).error.errors
                            /\ inv.callable.fn = "soft"
                                  => errors = <<"Post not found", "Check the id">>
                   /\ PredicateRaised(inv) => Len(errors) = 1
                   /\ SchemaRejected(inv)
                         => LET issues ==
                                  SchemaParse(Last(inv.validatorArgs)).error.issues
                            IN  /\ Len(issues) >= 1
                                /\ errors = [k \in DOMAIN issues |-> issues[k].message]

\* A stage raised `new ForbiddenError("Admin required")`, which was
\* given no list: the envelope's errors are the description alone.
C29_Witness ==
    \E i \in DOMAIN invocations :
        LET inv == invocations[i] IN
        /\ ReturnedFailure(inv)
        /\ EndedByThrow(inv, "stage")
        /\ StageResult(inv, Last(inv.trace).pos).error.errors = <<"Admin required">>
        /\ inv.outcome.envelope.code = "FORBIDDEN"
        /\ inv.outcome.envelope.errors = <<"Admin required">>

====
